---- MODULE Spec2Model ----
(***************************************************************************)
(* The request handlers of the e-book platform: session issuance and       *)
(* verification, cover upload, and publish (src/unnamed/part_001), and the *)
(* SQL-backed handler of functions/api/books.js.  The KV namespaces        *)
(* SESSIONS and STORIES, the R2 bucket COVERS and the D1 table books are   *)
(* the state; every handler is an action, split where it awaits a storage  *)
(* operation whose interleaving with another request changes the result.   *)
(***************************************************************************)
EXTENDS Integers, Sequences, FiniteSets, TLC

\* ---------------------------------------------------------------- bounds
\* How many UUIDs crypto.randomUUID() hands out in one behaviour.
MaxUUID == 3
\* How many times the clock advances in one behaviour.
MaxTicks == 3
\* How many rows the SQL table books holds at most.
MaxRows == 1

\* ------------------------------------------------------------- constants
SESSION_TTL_MS == 20 * 60 * 1000

\* env.SECRET_TOKEN: the server-held publishing password.
SECRET_TOKEN == "s3cret"

\* The JS value undefined (a field absent from the JSON payload).
Undefined == "<undefined>"

\* A payload that readJson() could not parse (it returns null), and the
\* result of a KV get of an absent key.
Null == [null |-> TRUE]

\* The values crypto.randomUUID() returns, in the order it returns them:
\* each call yields a value never returned before.
UUIDS == <<"u1", "u2", "u3", "u4", "u5", "u6", "u7", "u8">>

\* The clock advances by one millisecond or by one millisecond less than the
\* session lifetime, so that expires - 1, expires and expires + 1 are all
\* reached.  Time is counted in ms from the deployment's start.
StartTime == {1}
Steps == {1, SESSION_TTL_MS - 1}

\* The two publish handler invocations that may be in flight together.
Handlers == {"h1", "h2"}

VARIABLES
  now,       \* Date.now(), in ms
  ticks,     \* how often the clock advanced
  uuid,      \* how many UUIDs crypto.randomUUID() has returned
  SESSIONS,  \* env.SESSIONS: token -> the record {token, expires}, its expiration
  STORIES,   \* env.STORIES: book id -> book record
  COVERS,    \* env.COVERS: key -> {bytes, contentType}
  DB,        \* env.DB, table books: the rows inserted
  pub,       \* the publish invocations awaiting STORIES.get / STORIES.put
  resp,      \* the response on its way to the client, or NoResp
  issued,    \* history: every session ever created, token -> expires
  published, \* history: book id -> the chapter ids the 201 responses returned
  got,       \* the last GET response a client received
  uploaded,  \* history: url a 201 of upload-cover returned -> the file sent
  wb_session, \* editor: sessionStorage item 'wb_session'
  editor,    \* editor: the submit handler's position and locals
  md,        \* paginator: the markdown given to paginateMarkdown
  charsPerPage, \* paginator: the budget given to paginateMarkdown
  pages,     \* paginator: what paginateMarkdown returned
  bookData,  \* reader: the book fetched by init(), its chapters
  currentChapterIndex, \* reader: index of the chapter shown
  flipping,  \* reader: the flag guarding page flips
  pageEls,   \* reader: the page elements of #pages, in document order
  closing,   \* reader: close animations running, each with its target index
  overrideMode \* reader: the mode parameter of the page's URL

serverVars ==
  <<now, ticks, uuid, SESSIONS, STORIES, COVERS, DB, pub, resp, issued, published>>
editorVars == <<wb_session, editor>>
paginatorVars == <<md, charsPerPage, pages>>
readerVars ==
  <<bookData, currentChapterIndex, flipping, pageEls, closing, overrideMode>>
fetchVars == <<got, uploaded>>
clientVars == <<fetchVars, editorVars, paginatorVars, readerVars>>

vars == <<serverVars, clientVars>>

\* ------------------------------------------------------------ JS helpers
\* JS truthiness of a payload field: undefined, null and '' are falsy.
Truthy(v) == v # Undefined /\ v # ""

\* a || b
OrElse(a, b) == IF Truthy(a) THEN a ELSE b

\* new Date(ms).toISOString(): a fixed-width string whose lexicographic
\* order is the chronological order; its characters are decimal digits here.
toISOString(ms) == [i \in 1..8 |-> (ms \div (10 ^ (8 - i))) % 10]

\* crypto.randomUUID(): the next value never returned before.
randomUUID(n) == UUIDS[n + 1]

\* KV get: the stored value, or null.
KVGet(kv, key) == IF key \in DOMAIN kv THEN kv[key] ELSE Null

\* KV put: one key written, every other key untouched.
KVPut(kv, key, val) == [k \in DOMAIN kv \cup {key} |-> IF k = key THEN val ELSE kv[k]]

\* KV delete.
KVDelete(kv, key) == [k \in DOMAIN kv \ {key} |-> kv[k]]

Idle == [pc |-> "idle"]

\* No response is on its way to a client.
NoResp == [op |-> "none", status |-> 0, sess |-> "", verify |-> "-", thrown |-> FALSE]

\* A response: the handler that answered, its status, the X-SESSION header
\* of the request it answers (for a session response: the token issued), the
\* branch verifySession took ("-" when the handler does not call it), and
\* whether the handler ended with an uncaught exception (the platform then
\* answers 500) instead of a response of its own.
Response(op, status, sess, verify) ==
  [op |-> op, status |-> status, sess |-> sess, verify |-> verify, thrown |-> FALSE]

Thrown(op, sess, verify) ==
  [op |-> op, status |-> 500, sess |-> sess, verify |-> verify, thrown |-> TRUE]

\* ---------------------------------------------------------- client state
\* No GET response has been received.
NoGot == [op |-> "none", path |-> <<>>, status |-> 0, contentType |-> <<>>, body |-> <<>>]

\* The editor's submit handler is not running: no token in hand, no form,
\* and the status line empty.
NoForm == [coverFile |-> FALSE, bookTitle |-> ""]
EditorIdle ==
  [pc |-> "idle", token |-> "", form |-> NoForm, coverUrl |-> "", prompted |-> FALSE,
   status |-> ""]

\* const CHARS_PER_PAGE = 1600
CHARS_PER_PAGE == 1600

\* paginateMarkdown has not been called.
NotCalled == [called |-> FALSE, value |-> <<>>]

\* The page's scripts have just been loaded: nothing in sessionStorage, no
\* book fetched, currentChapterIndex = 0, flipping = false, #pages empty.
InitEditor ==
  /\ got = NoGot
  /\ uploaded = <<>>
  /\ wb_session = Undefined
  /\ editor = EditorIdle

InitReader ==
  /\ bookData = Null
  /\ currentChapterIndex = 0
  /\ flipping = FALSE
  /\ pageEls = <<>>
  /\ closing = <<>>
  /\ overrideMode = Undefined

InitClient ==
  /\ InitEditor
  /\ InitReader
  /\ md = <<>>
  /\ charsPerPage = CHARS_PER_PAGE
  /\ pages = NotCalled

\* ------------------------------------------------------------------ Init
\* The worker is deployed: the stores are empty, no request is in flight.
InitServer ==
  /\ now \in StartTime
  /\ ticks = 0
  /\ uuid = 0
  /\ SESSIONS = <<>>
  /\ STORIES = <<>>
  /\ COVERS = <<>>
  /\ DB = <<>>
  /\ pub = [h \in Handlers |-> Idle]
  /\ resp = NoResp
  /\ issued = <<>>
  /\ published = <<>>

Init == InitServer /\ InitClient

\* ----------------------------------------------------------------- clock
Tick(d) ==
  /\ ticks < MaxTicks
  /\ now' = now + d
  /\ ticks' = ticks + 1
  /\ UNCHANGED <<uuid, SESSIONS, STORIES, COVERS, DB, pub, resp, issued, published>>

\* The KV store removes a record on its own once the expiration (in seconds)
\* it was put with has come; when exactly it does so is up to the store.
StoreExpire(tok) ==
  /\ tok \in DOMAIN SESSIONS
  /\ now \div 1000 >= SESSIONS[tok].expiration
  /\ SESSIONS' = KVDelete(SESSIONS, tok)
  /\ UNCHANGED <<now, ticks, uuid, STORIES, COVERS, DB, pub, resp, issued, published>>

\* UUIDs that invocations in flight will still draw.
Reserved == Cardinality({h \in Handlers : pub[h].pc # "idle"})

\* --------------------------------------------------------- POST /api/session
Passwords == {Undefined, "", SECRET_TOKEN, "guess"}
SessionPayloads == {Null} \cup [password : Passwords]

\* payload && payload.password
PasswordOf(payload) == IF payload = Null THEN Undefined ELSE payload.password

\* A session record whose lifetime is counted in seconds, not milliseconds.
SessionRecordSeconds(token, t) ==
  [value |-> [token |-> token, expires |-> t + 20 * 60],
   expiration |-> (t + 20 * 60) \div 1000]

\* The session record put under 'session:' + token at time t, and the
\* expiration (in seconds) the store is given with it.
SessionRecord(token, t) ==
  [value |-> [token |-> token, expires |-> t + SESSION_TTL_MS],
   expiration |-> (t + SESSION_TTL_MS) \div 1000]

CreateSession(payload) ==
  LET password == PasswordOf(payload)
      token == randomUUID(uuid)
  IN  /\ resp = NoResp
      /\ IF ~Truthy(password)
           THEN /\ resp' = Response("session", 400, "", "-")
                /\ UNCHANGED <<uuid, SESSIONS, issued>>
         ELSE IF password # SECRET_TOKEN
           THEN /\ resp' = Response("session", 403, "", "-")
                /\ UNCHANGED <<uuid, SESSIONS, issued>>
         ELSE /\ uuid + Reserved < MaxUUID
              /\ uuid' = uuid + 1
              /\ SESSIONS' = KVPut(SESSIONS, token, SessionRecord(token, now))
              /\ issued' = KVPut(issued, token, now + SESSION_TTL_MS)
              /\ resp' = Response("session", 201, token, "-")
      /\ UNCHANGED <<now, ticks, STORIES, COVERS, DB, pub, published>>

\* ------------------------------------------------------------ verifySession
\* The X-SESSION header values a request may carry: none ('' in the code), a
\* token that was never issued, and every token ever issued.
Headers == {"", "forged"} \cup DOMAIN issued

\* What verifySession finds for header sess at time t.
VerifyOutcome(sessions, sess, t) ==
  IF sess = "" THEN "absent"
  ELSE IF KVGet(sessions, sess) = Null THEN "unknown"
  ELSE IF t > KVGet(sessions, sess).value.expires THEN "expired"
  ELSE "ok"

\* Its return value.
verifySession(sessions, sess, t) == VerifyOutcome(sessions, sess, t) = "ok"

\* verifySession without its delete: the expired record stays in the store.
SessionsAfterVerifyNoDelete(sessions, sess, t) == sessions

\* verifySession renewing the session it accepts (a sliding window).
SessionsAfterVerifyRenewing(sessions, sess, t) ==
  IF VerifyOutcome(sessions, sess, t) = "expired" THEN KVDelete(sessions, sess)
  ELSE IF VerifyOutcome(sessions, sess, t) = "ok"
    THEN [sessions EXCEPT ![sess].value.expires = t + SESSION_TTL_MS]
  ELSE sessions

\* Its effect on env.SESSIONS: an expired record is deleted.
SessionsAfterVerify(sessions, sess, t) ==
  IF VerifyOutcome(sessions, sess, t) = "expired"
    THEN KVDelete(sessions, sess)
    ELSE sessions

\* ------------------------------------------------- POST /api/upload-cover
\* Text whose characters matter is a sequence of pieces of text.  A data URI
\* is made of the pieces 'data:', a content type, ';base64,' and base64
\* groups of four characters.
B64Groups == {"AQID", "/w=="}

\* atob of one group of four base64 characters: the bytes it encodes.
DecodeGroup(g) == IF g = "AQID" THEN <<1, 2, 3>> ELSE <<255>>

\* Whether atob accepts the text: base64 groups only, a padded group last.
ValidBase64(b64) ==
  /\ \A i \in 1..Len(b64) : b64[i] \in B64Groups
  /\ \A i \in 1..Len(b64) : b64[i] = "/w==" => i = Len(b64)

RECURSIVE atob(_)
atob(b64) ==
  IF b64 = <<>> THEN <<>> ELSE DecodeGroup(Head(b64)) \o atob(Tail(b64))

\* payload.data.match(/^data:(.+);base64,(.*)$/): the positions of ';base64,'
\* that leave a non-empty first group after 'data:'.
SeparatorAt(data) ==
  {j \in 3..Len(data) : data[1] = "data:" /\ data[j] = ";base64,"}

Max(S) == CHOOSE x \in S : \A y \in S : y <= x

\* The match groups (.+ is greedy: the last separator splits), or Null.
MatchDataURI(data) ==
  IF SeparatorAt(data) = {} THEN Null
  ELSE LET j == Max(SeparatorAt(data))
       IN  [type |-> SubSeq(data, 2, j - 1), b64 |-> SubSeq(data, j + 1, Len(data))]

ContentTypeOf(data) ==
  IF MatchDataURI(data) = Null THEN <<"application/octet-stream">>
  ELSE MatchDataURI(data).type

Base64Of(data) ==
  IF MatchDataURI(data) = Null THEN data ELSE MatchDataURI(data).b64

\* filename.replace(/[^a-zA-Z0-9-_.]/g, '_')
SafeChars == {"a", "Z", "9", "-", "_", "."}
Sanitize(filename) ==
  [i \in 1..Len(filename) |-> IF filename[i] \in SafeChars THEN filename[i] ELSE "_"]

\* `covers/${crypto.randomUUID()}-${sanitized filename}`
CoverKey(id, filename) == <<"covers/", id, "-">> \o Sanitize(filename)

Filenames == {<<>>, <<"a", ".", "Z">>, <<"a", " ", "/">>}
DataURIs ==
  { <<>>,
    <<"data:", "image/png", ";base64,", "AQID", "/w==">>,
    <<"data:", "image/png", ";base64,">>,
    <<"AQID">>,
    <<"data:", "image/png", ";base64,", "!">>,
    <<"data:", "image/png", ";base64,", "/w==", "AQID">>,
    <<"data:", "AQID">>,
    <<"data:", ";base64,", "AQID">> }

\* A JSON body with both, one or none of the fields, or no JSON at all.
UploadPayloads ==
  {Null} \cup [filename : Filenames, data : DataURIs]
         \cup [filename : Filenames] \cup [data : DataURIs]

\* !payload.f for a text field: absent or ''.
Missing(payload, f) == f \notin DOMAIN payload \/ payload[f] = <<>>

UploadCover(sess, payload) ==
  LET key == CoverKey(randomUUID(uuid), payload.filename)
  IN  /\ resp = NoResp
      /\ SESSIONS' = SessionsAfterVerify(SESSIONS, sess, now)
      /\ IF ~verifySession(SESSIONS, sess, now)
           THEN /\ resp' = Response("upload", 403, sess, VerifyOutcome(SESSIONS, sess, now))
                /\ UNCHANGED <<uuid, COVERS>>
         ELSE IF payload = Null \/ Missing(payload, "data") \/ Missing(payload, "filename")
           THEN /\ resp' = Response("upload", 400, sess, "ok")
                /\ UNCHANGED <<uuid, COVERS>>
         ELSE /\ uuid + Reserved < MaxUUID
              /\ uuid' = uuid + 1
              /\ IF ~ValidBase64(Base64Of(payload.data))
                   THEN /\ resp' = Thrown("upload", sess, "ok")
                        /\ UNCHANGED COVERS
                   ELSE /\ COVERS' = KVPut(COVERS, key,
                                       [bytes |-> atob(Base64Of(payload.data)),
                                        contentType |-> ContentTypeOf(payload.data)])
                        /\ resp' = Response("upload", 201, sess, "ok")
      /\ UNCHANGED <<now, ticks, STORIES, DB, pub, issued, published>>

\* ------------------------------------------------------- POST /api/books
\* The book ids a client may send: none, one of its own choosing, and the id
\* of every stored book.
BookIds == {Undefined, "b1"} \cup DOMAIN STORIES

\* The JSON bodies: not JSON at all, or one required field missing.
BadPublishPayloads ==
  {Null}
  \cup [bookId : {""}, bookTitle : {Undefined, ""}, bookDesc : {Undefined},
        cover : {Undefined}, chapterTitle : {"c"}, body : {"text"}, mode : {Undefined}]
  \cup [bookId : {""}, bookTitle : {"A"}, bookDesc : {Undefined},
        cover : {Undefined}, chapterTitle : {Undefined, ""}, body : {"text"}, mode : {Undefined}]
  \cup [bookId : {""}, bookTitle : {"A"}, bookDesc : {Undefined},
        cover : {Undefined}, chapterTitle : {"c"}, body : {Undefined, ""}, mode : {Undefined}]

\* The metadata of the complete bodies: description and cover each omitted,
\* empty and supplied; both titles; the mode omitted and supplied.
Metadata ==
  { [bookTitle |-> "A", bookDesc |-> Undefined, cover |-> Undefined, mode |-> Undefined],
    [bookTitle |-> "A", bookDesc |-> "", cover |-> "", mode |-> Undefined],
    [bookTitle |-> "A", bookDesc |-> "d", cover |-> "/r2/c", mode |-> Undefined],
    [bookTitle |-> "B", bookDesc |-> Undefined, cover |-> "", mode |-> "novel"] }

GoodPublishPayloads ==
  { [bookId |-> id, bookTitle |-> m.bookTitle, bookDesc |-> m.bookDesc,
     cover |-> m.cover, chapterTitle |-> "c", body |-> "text", mode |-> m.mode] :
    id \in BookIds, m \in Metadata }

PublishPayloads == BadPublishPayloads \cup GoodPublishPayloads

\* The record of a book published for the first time (before the chapter).
NewBook(bookId, payload, at) ==
  [id |-> bookId, title |-> payload.bookTitle,
   description |-> OrElse(payload.bookDesc, ""), cover |-> OrElse(payload.cover, ""),
   created_at |-> at, updated_at |-> at, chapters |-> <<>>]

\* The merge overwriting the description only with a non-empty one, as it
\* does the cover.
MergeBookTruthyDesc(book, payload, at) ==
  [book EXCEPT
     !.title = IF Truthy(payload.bookTitle) THEN payload.bookTitle ELSE @,
     !.description = IF Truthy(payload.bookDesc) THEN payload.bookDesc ELSE @,
     !.cover = IF Truthy(payload.cover) THEN payload.cover ELSE @,
     !.updated_at = at]

\* The stored record with the payload's metadata merged in.
MergeBook(book, payload, at) ==
  [book EXCEPT
     !.title = IF Truthy(payload.bookTitle) THEN payload.bookTitle ELSE @,
     !.description = IF payload.bookDesc # Undefined THEN payload.bookDesc ELSE @,
     !.cover = IF Truthy(payload.cover) THEN payload.cover ELSE @,
     !.updated_at = at]

NewChapter(chapterId, payload, at) ==
  [id |-> chapterId, title |-> payload.chapterTitle, body |-> payload.body,
   mode |-> OrElse(payload.mode, "scroll"), created_at |-> at]

\* The chapter replacing the chapter list instead of joining it.
PushChapterReplacing(book, chapter, at) ==
  [book EXCEPT !.chapters = <<chapter>>, !.updated_at = at]

\* book.chapters.push(chapter); book.updated_at = now
PushChapter(book, chapter, at) ==
  [book EXCEPT !.chapters = Append(@, chapter), !.updated_at = at]

\* The record the handler writes back, from the record it read (or null).
PublishedBook(read, bookId, payload, at, chapterId) ==
  PushChapter(IF read = Null THEN NewBook(bookId, payload, at)
                             ELSE MergeBook(read, payload, at),
              NewChapter(chapterId, payload, at), at)

\* From the request to the await of STORIES.get: the session is verified,
\* the body parsed and validated, the book id and the timestamp fixed, and
\* the stored record read.
PublishStart(h, sess, payload) ==
  LET fresh == ~Truthy(payload.bookId)
      bookId == IF fresh THEN randomUUID(uuid) ELSE payload.bookId
  IN  /\ resp = NoResp
      /\ pub[h] = Idle
      /\ SESSIONS' = SessionsAfterVerify(SESSIONS, sess, now)
      /\ IF ~verifySession(SESSIONS, sess, now)
           THEN /\ resp' = Response("publish", 403, sess, VerifyOutcome(SESSIONS, sess, now))
                /\ UNCHANGED <<uuid, pub>>
         ELSE IF payload = Null
           THEN /\ resp' = Response("publish", 400, sess, "ok")
                /\ UNCHANGED <<uuid, pub>>
         ELSE IF ~Truthy(payload.bookTitle) \/ ~Truthy(payload.chapterTitle)
                 \/ ~Truthy(payload.body)
           THEN /\ resp' = Response("publish", 400, sess, "ok")
                /\ UNCHANGED <<uuid, pub>>
         ELSE /\ uuid + Reserved + (IF fresh THEN 2 ELSE 1) <= MaxUUID
              /\ uuid' = IF fresh THEN uuid + 1 ELSE uuid
              /\ pub' = [pub EXCEPT ![h] =
                           [pc |-> "read", sess |-> sess, bookId |-> bookId,
                            at |-> toISOString(now), payload |-> payload,
                            book |-> KVGet(STORIES, bookId)]]
              /\ UNCHANGED resp
      /\ UNCHANGED <<now, ticks, STORIES, COVERS, DB, issued, published>>

\* The chapter ids the 201 responses for a book id returned so far, in order.
Returned(bookId) == IF bookId \in DOMAIN published THEN published[bookId] ELSE <<>>

\* The handler re-reading the stored record when it resumes and appending to
\* that one: a merge of the chapter lists.
PublishFinishMerging(h) ==
  LET p == pub[h]
      chapterId == randomUUID(uuid)
  IN  /\ resp = NoResp
      /\ p.pc = "read"
      /\ uuid' = uuid + 1
      /\ STORIES' = KVPut(STORIES, p.bookId,
                          PublishedBook(KVGet(STORIES, p.bookId), p.bookId, p.payload,
                                        p.at, chapterId))
      /\ published' = KVPut(published, p.bookId, Append(Returned(p.bookId), chapterId))
      /\ pub' = [pub EXCEPT ![h] = Idle]
      /\ resp' = Response("publish", 201, p.sess, "ok")
      /\ UNCHANGED <<now, ticks, SESSIONS, COVERS, DB, issued>>

\* From the resumption after STORIES.get to the response: the record is
\* built from the one read, the chapter appended, and the whole written back.
PublishFinish(h) ==
  LET p == pub[h]
      chapterId == randomUUID(uuid)
  IN  /\ resp = NoResp
      /\ p.pc = "read"
      /\ uuid' = uuid + 1
      /\ STORIES' = KVPut(STORIES, p.bookId,
                          PublishedBook(p.book, p.bookId, p.payload, p.at, chapterId))
      /\ published' = KVPut(published, p.bookId, Append(Returned(p.bookId), chapterId))
      /\ pub' = [pub EXCEPT ![h] = Idle]
      /\ resp' = Response("publish", 201, p.sess, "ok")
      /\ UNCHANGED <<now, ticks, SESSIONS, COVERS, DB, issued>>

\* --------------------------- functions/api/books.js: POST /api/books (SQL)
\* The JSON bodies: not JSON at all (request.json() throws), or a book.
InsertPayloads == {Null} \cup [title : {"A"}, cover : {""}, content : {"text"}]

\* onRequestPost: the body's title, cover and content are inserted as a row
\* of the table books; the request's headers are not looked at.
onRequestPost(sess, payload) ==
  /\ resp = NoResp
  /\ IF payload = Null
       THEN /\ resp' = Thrown("insert", sess, "-")
            /\ UNCHANGED DB
       ELSE /\ Len(DB) < MaxRows
            /\ DB' = Append(DB, payload)
            /\ resp' = Response("insert", 200, sess, "-")
  /\ UNCHANGED <<now, ticks, uuid, SESSIONS, STORIES, COVERS, pub, issued, published>>

\* The response reaches the client.
Deliver ==
  /\ resp # NoResp
  /\ resp' = NoResp
  /\ UNCHANGED <<now, ticks, uuid, SESSIONS, STORIES, COVERS, DB, pub, issued, published>>

\* ------------------------------------------------------------------ Next
\* Sessions over time: every way of asking for a session, the clock running
\* past a session's expiry, and each privileged request with one body.  The
\* clock and the store's expiry are looked at between responses.
OnePublish ==
  [bookId |-> "b1", bookTitle |-> "A", bookDesc |-> Undefined, cover |-> Undefined,
   chapterTitle |-> "c", body |-> "text", mode |-> Undefined]
OneUpload ==
  [filename |-> <<"a", ".", "Z">>,
   data |-> <<"data:", "image/png", ";base64,", "AQID", "/w==">>]
OneInsert == [title |-> "A", cover |-> "", content |-> "text"]

Next ==
  \/ resp = NoResp /\ (\E d \in Steps : Tick(d)) /\ UNCHANGED clientVars
  \/ resp = NoResp /\ (\E tok \in DOMAIN SESSIONS : StoreExpire(tok))
     /\ UNCHANGED clientVars
  \/ (\E payload \in SessionPayloads : CreateSession(payload)) /\ UNCHANGED clientVars
  \/ (\E sess \in Headers : UploadCover(sess, OneUpload)) /\ UNCHANGED clientVars
  \/ (\E sess \in Headers : PublishStart("h1", sess, OnePublish)) /\ UNCHANGED clientVars
  \/ PublishFinish("h1") /\ UNCHANGED clientVars
  \/ (\E sess \in Headers : onRequestPost(sess, OneInsert)) /\ UNCHANGED clientVars
  \/ Deliver /\ UNCHANGED clientVars

Spec == Init /\ [][Next]_vars

\* Publishing: one author's session, two invocations in flight, every body
\* with the author's token and one body with every other header.
NextPublish ==
  \/ resp = NoResp /\ Tick(1) /\ UNCHANGED clientVars
  \/ issued = <<>> /\ CreateSession([password |-> SECRET_TOKEN]) /\ UNCHANGED clientVars
  \/ (\E h \in Handlers, sess \in DOMAIN issued, payload \in PublishPayloads :
        PublishStart(h, sess, payload)) /\ UNCHANGED clientVars
  \/ (\E h \in Handlers, sess \in Headers \ DOMAIN issued :
        PublishStart(h, sess, OnePublish)) /\ UNCHANGED clientVars
  \/ (\E h \in Handlers : PublishFinish(h)) /\ UNCHANGED clientVars
  \/ Deliver /\ UNCHANGED clientVars

SpecPublish == Init /\ [][NextPublish]_vars

\* Uploading: one author's session, every body.
NextUpload ==
  \/ issued = <<>> /\ CreateSession([password |-> SECRET_TOKEN]) /\ UNCHANGED clientVars
  \/ (\E sess \in Headers, payload \in UploadPayloads : UploadCover(sess, payload))
     /\ UNCHANGED clientVars
  \/ (\E sess \in Headers, payload \in InsertPayloads : onRequestPost(sess, payload))
     /\ UNCHANGED clientVars
  \/ Deliver /\ UNCHANGED clientVars

SpecUpload == Init /\ [][NextUpload]_vars

\* ----------------------------------------------------------- GET /r2/:key
\* encodeURIComponent and decodeURIComponent on the pieces a URL is made of:
\* the slash and the space are escaped, letters, digits, - _ . are not; a
\* percent sign that escapes nothing cannot be decoded (URIError).
EncodePiece(c) ==
  IF c = "covers/" THEN "covers%2F"
  ELSE IF c = "/" THEN "%2F"
  ELSE IF c = " " THEN "%20"
  ELSE c

DecodePiece(c) ==
  IF c = "covers%2F" THEN "covers/"
  ELSE IF c = "%2F" THEN "/"
  ELSE IF c = "%20" THEN " "
  ELSE c

encodeURIComponent(text) == [i \in 1..Len(text) |-> EncodePiece(text[i])]

\* The path is taken as it is, without decoding.
SliceOnly(text) == text

decodeURIComponent(text) == [i \in 1..Len(text) |-> DecodePiece(text[i])]

Decodable(text) == \A i \in 1..Len(text) : text[i] # "%"

\* `${url.origin}/r2/${encodeURIComponent(key)}`
UrlOf(key) == <<"https://origin", "/r2/">> \o encodeURIComponent(key)

\* new URL(request.url).pathname
PathOf(url) == Tail(url)

\* btoa of the bytes of a file: 1, 2, 3 gives the group AQID, a last byte
\* 255 the padded group /w==.
RECURSIVE btoa(_)
btoa(bytes) ==
  IF bytes = <<>> THEN <<>>
  ELSE IF Len(bytes) >= 3 /\ SubSeq(bytes, 1, 3) = <<1, 2, 3>>
    THEN <<"AQID">> \o btoa(SubSeq(bytes, 4, Len(bytes)))
  ELSE <<"/w==">> \o btoa(Tail(bytes))

\* The cover files sent: their type and their bytes.
Files ==
  {[type |-> <<"image/png">>, bytes |-> <<1, 2, 3, 255>>],
   [type |-> <<"image/png">>, bytes |-> <<>>],
   [type |-> <<"text/plain", ";", "charset=utf-8">>, bytes |-> <<1, 2, 3, 1, 2, 3>>]}

\* `data:${file.type};base64,${b64}`
DataURIOf(file) == <<"data:">> \o file.type \o <<";base64,">> \o btoa(file.bytes)

\* The upload of a file under a name; the url of a 201 is noted with the
\* file.
PostCover(sess, file, filename) ==
  /\ UploadCover(sess, [filename |-> filename, data |-> DataURIOf(file)])
  /\ uploaded' = IF resp'.status = 201
                   THEN KVPut(uploaded, UrlOf(CoverKey(randomUUID(uuid), filename)), file)
                   ELSE uploaded
  /\ UNCHANGED <<got, editorVars, paginatorVars, readerVars>>

\* GET /r2/:key: the key is decoded from the path (outside the try block),
\* the object read, and answered with its body and stored content type, or
\* 404 when there is none.  The request's headers are not looked at.
GetCover(sess, path) ==
  LET key == decodeURIComponent(Tail(path))
      obj == KVGet(COVERS, key)
  IN  /\ resp = NoResp
      /\ Head(path) = "/r2/"
      /\ IF ~Decodable(Tail(path))
           THEN /\ resp' = Thrown("r2", sess, "-")
                /\ got' = [op |-> "r2", path |-> path, status |-> 500,
                           contentType |-> <<>>, body |-> <<>>]
         ELSE IF obj = Null
           THEN /\ resp' = Response("r2", 404, sess, "-")
                /\ got' = [op |-> "r2", path |-> path, status |-> 404,
                           contentType |-> <<"text/plain">>, body |-> <<"Not found">>]
         ELSE /\ resp' = Response("r2", 200, sess, "-")
              /\ got' = [op |-> "r2", path |-> path, status |-> 200,
                         contentType |-> obj.contentType, body |-> obj.bytes]
      /\ UNCHANGED <<now, ticks, uuid, SESSIONS, STORIES, COVERS, DB, pub, issued,
                     published>>
      /\ UNCHANGED <<uploaded, editorVars, paginatorVars, readerVars>>

\* The paths asked for: those of the urls returned, that of a key never
\* stored, and one that cannot be decoded.
NeverStored == <<"covers/", "u0", "-", "a">>
Paths ==
  {PathOf(url) : url \in DOMAIN uploaded}
    \cup {PathOf(UrlOf(NeverStored)), <<"/r2/", "%">>}

\* Covers: one author's session; files uploaded and fetched with any header.
NextCover ==
  \/ issued = <<>> /\ CreateSession([password |-> SECRET_TOKEN]) /\ UNCHANGED clientVars
  \/ \E sess \in Headers, file \in Files, filename \in Filenames \ {<<>>} :
       PostCover(sess, file, filename)
  \/ \E sess \in Headers, path \in Paths : GetCover(sess, path)
  \/ Deliver /\ UNCHANGED clientVars

SpecCover == Init /\ [][NextCover]_vars

\* --------------------------------------------------------- GET /api/books
\* A stored value that JSON.parse rejects.
Malformed == [malformed |-> TRUE]

\* The book ids in the order STORIES.list returns their keys (lexicographic).
KeyOrder == <<"b1", "b2">> \o UUIDS \o <<"zz">>
ListKeys(stories) == SelectSeq(KeyOrder, LAMBDA k : k \in DOMAIN stories)

\* The summary pushed for a parsed record; b.chapters?.length || 0.
Summary(b) ==
  [id |-> b.id, title |-> b.title, description |-> b.description, cover |-> b.cover,
   chapterCount |-> Len(b.chapters), updated_at |-> b.updated_at]

\* The loop over list.keys: a record that does not parse is skipped.
RECURSIVE Summaries(_, _)
Summaries(stories, keys) ==
  IF keys = <<>> THEN <<>>
  ELSE IF stories[Head(keys)] = Malformed THEN Summaries(stories, Tail(keys))
  ELSE <<Summary(stories[Head(keys)])>> \o Summaries(stories, Tail(keys))

\* a.localeCompare(b) for two timestamps of toISOString: -1, 0 or 1.
RECURSIVE localeCompare(_, _)
localeCompare(a, b) ==
  IF a = <<>> /\ b = <<>> THEN 0
  ELSE IF a = <<>> THEN -1
  ELSE IF b = <<>> THEN 1
  ELSE IF Head(a) < Head(b) THEN -1
  ELSE IF Head(a) > Head(b) THEN 1
  ELSE localeCompare(Tail(a), Tail(b))

\* books.sort((a,b) => (b.updated_at||'').localeCompare(a.updated_at||'')):
\* a stable sort; x is put before the first book the comparator orders
\* after it.
RECURSIVE InsertBook(_, _)
InsertBook(sorted, x) ==
  IF sorted = <<>> THEN <<x>>
  ELSE IF localeCompare(x.updated_at, Head(sorted).updated_at) > 0 THEN <<x>> \o sorted
  ELSE <<Head(sorted)>> \o InsertBook(Tail(sorted), x)

RECURSIVE sort(_)
sort(books) ==
  IF books = <<>> THEN <<>>
  ELSE InsertBook(sort(SubSeq(books, 1, Len(books) - 1)), books[Len(books)])

\* LIST BOOKS of the worker: the summaries of the records under 'book:',
\* sorted.
ListBooks(sess) ==
  /\ resp = NoResp
  /\ resp' = Response("list", 200, sess, "-")
  /\ got' = [op |-> "list", path |-> <<"/api/books">>, status |-> 200,
             contentType |-> <<"application/json">>,
             body |-> sort(Summaries(STORIES, ListKeys(STORIES)))]
  /\ UNCHANGED <<now, ticks, uuid, SESSIONS, STORIES, COVERS, DB, pub, issued,
                 published>>
  /\ UNCHANGED <<uploaded, editorVars, paginatorVars, readerVars>>

\* onRequestGet of functions/api/books.js: SELECT id, title, cover FROM
\* books, the rows as the table holds them.
onRequestGet(sess) ==
  /\ resp = NoResp
  /\ resp' = Response("select", 200, sess, "-")
  /\ got' = [op |-> "select", path |-> <<"/api/books">>, status |-> 200,
             contentType |-> <<"application/json">>,
             body |-> [i \in 1..Len(DB) |->
                        [id |-> i, title |-> DB[i].title, cover |-> DB[i].cover]]]
  /\ UNCHANGED <<now, ticks, uuid, SESSIONS, STORIES, COVERS, DB, pub, issued,
                 published>>
  /\ UNCHANGED <<uploaded, editorVars, paginatorVars, readerVars>>

\* A value that is not JSON is put under a 'book:' key from outside the
\* worker (the namespace is also written with the platform's own tools).
StoreCorrupt ==
  /\ resp = NoResp
  /\ "zz" \notin DOMAIN STORIES
  /\ STORIES' = KVPut(STORIES, "zz", Malformed)
  /\ UNCHANGED <<now, ticks, uuid, SESSIONS, COVERS, DB, pub, resp, issued, published>>

\* Listing: one author's session, two books published at different times, a
\* malformed record, rows inserted, and both handlers of GET /api/books.
NextList ==
  \/ resp = NoResp /\ Tick(1) /\ UNCHANGED clientVars
  \/ issued = <<>> /\ CreateSession([password |-> SECRET_TOKEN]) /\ UNCHANGED clientVars
  \/ (\E sess \in DOMAIN issued, id \in {"b1", "b2"} :
        PublishStart("h1", sess, [OnePublish EXCEPT !.bookId = id]))
     /\ UNCHANGED clientVars
  \/ PublishFinish("h1") /\ UNCHANGED clientVars
  \/ StoreCorrupt /\ UNCHANGED clientVars
  \/ onRequestPost("", OneInsert) /\ UNCHANGED clientVars
  \/ ListBooks("")
  \/ onRequestGet("")
  \/ Deliver /\ UNCHANGED clientVars

SpecList == Init /\ [][NextList]_vars

\* ------------------------------------------------- editor.js: submit flow
\* What the form holds at submit: a cover file or none, a book title or none
\* (the other required fields are filled in).
Forms == [coverFile : BOOLEAN, bookTitle : {"", "A"}]

\* res.ok
Ok(status) == status >= 200 /\ status <= 299

\* The body the submit handler posts to /api/books.
FormPayload(form, coverUrl) ==
  [bookId |-> "b1", bookTitle |-> form.bookTitle, bookDesc |-> "", cover |-> coverUrl,
   chapterTitle |-> "c", body |-> "text", mode |-> "scroll"]

\* The message of the error thrown for a response that is not ok: the
\* server's 'Forbidden' for a 403, "Error" standing for every other one.
ErrorOf(r) == IF r.status = 403 THEN "Error: Forbidden" ELSE "Error"

\* The submit handler returns, leaving this text in the status line.
Ended(status) == [EditorIdle EXCEPT !.prompted = editor.prompted, !.status = status]

\* The submit event up to the first await of a fetch: ensureSession returns
\* the sessionStorage token when there is one; otherwise it asks for the
\* password and posts it to /api/session.
Submit(form, pw) ==
  /\ editor.pc = "idle"
  /\ IF Truthy(wb_session)
       THEN /\ editor' = [EditorIdle EXCEPT !.pc = "ensured", !.token = wb_session,
                                             !.form = form]
            /\ UNCHANGED serverVars
     ELSE IF ~Truthy(pw)
       THEN /\ editor' = [EditorIdle EXCEPT !.prompted = TRUE,
                                             !.status = "Error: no-password"]
            /\ UNCHANGED serverVars
     ELSE /\ CreateSession([password |-> pw])
          /\ editor' = [EditorIdle EXCEPT !.pc = "session", !.form = form,
                                           !.prompted = TRUE]
  /\ UNCHANGED <<fetchVars, wb_session, paginatorVars, readerVars>>

\* ensureSession resumes with the response of /api/session.
ReceiveSession ==
  /\ editor.pc = "session"
  /\ Deliver
  /\ IF Ok(resp.status)
       THEN /\ wb_session' = resp.sess
            /\ editor' = [editor EXCEPT !.pc = "ensured", !.token = resp.sess]
       ELSE /\ editor' = Ended("Error: auth-failed")
            /\ UNCHANGED wb_session
  /\ UNCHANGED <<fetchVars, paginatorVars, readerVars>>

\* With a token in hand: the cover file, if any, is posted to
\* /api/upload-cover.
SendCover ==
  /\ editor.pc = "ensured"
  /\ IF editor.form.coverFile
       THEN /\ UploadCover(editor.token, OneUpload)
            /\ editor' = [editor EXCEPT !.pc = "upload"]
       ELSE /\ editor' = [editor EXCEPT !.pc = "uploaded"]
            /\ UNCHANGED serverVars
  /\ UNCHANGED <<fetchVars, wb_session, paginatorVars, readerVars>>

\* uploadCover resumes with the response of /api/upload-cover.
ReceiveCover ==
  /\ editor.pc = "upload"
  /\ Deliver
  /\ editor' = IF Ok(resp.status)
                 THEN [editor EXCEPT !.pc = "uploaded", !.coverUrl = "url"]
                 ELSE Ended(ErrorOf(resp))
  /\ UNCHANGED <<fetchVars, wb_session, paginatorVars, readerVars>>

\* The fields are checked and the book posted to /api/books.
SendBook ==
  /\ editor.pc = "uploaded"
  /\ IF ~Truthy(editor.form.bookTitle)
       THEN /\ editor' = Ended("")
            /\ UNCHANGED serverVars
       ELSE /\ PublishStart("h1", editor.token,
                            FormPayload(editor.form, editor.coverUrl))
            /\ editor' = [editor EXCEPT !.pc = "publish"]
  /\ UNCHANGED <<fetchVars, wb_session, paginatorVars, readerVars>>

\* The submit handler resumes with the response of /api/books.
ReceiveBook ==
  /\ editor.pc = "publish"
  /\ Deliver
  /\ editor' = Ended(IF Ok(resp.status) THEN "Published" ELSE ErrorOf(resp))
  /\ UNCHANGED <<fetchVars, wb_session, paginatorVars, readerVars>>

\* One editor tab over time: submits with every form and every answer to the
\* password prompt, while the clock runs and the store expires sessions.
NextEditor ==
  \/ resp = NoResp /\ (\E d \in Steps : Tick(d)) /\ UNCHANGED clientVars
  \/ resp = NoResp /\ (\E tok \in DOMAIN SESSIONS : StoreExpire(tok))
     /\ UNCHANGED clientVars
  \/ \E form \in Forms, pw \in Passwords : Submit(form, pw)
  \/ ReceiveSession
  \/ SendCover
  \/ ReceiveCover
  \/ SendBook
  \/ PublishFinish("h1") /\ UNCHANGED clientVars
  \/ ReceiveBook

SpecEditor == Init /\ [][NextEditor]_vars

\* ------------------------------------------- reader.js: paginateMarkdown
\* Text is a sequence of pieces: single characters, and LongWord, a run of
\* RunLength letters.  LF is the line feed, BS the backslash character.
LF == "\n"
BS == "\\"
LongWord == "x.."
Whitespace == {" ", LF}

\* How many pieces an input of the paginator is made of, at most; the
\* largest budget; the length of LongWord.
MaxChunks == 4
MaxBudget == 5
RunLength == 800

\* String.prototype.length
RECURSIVE Length(_)
Length(text) ==
  IF text = <<>> THEN 0
  ELSE (IF Head(text) = LongWord THEN RunLength ELSE 1) + Length(Tail(text))

\* How many "s" follow each other from position i on.
RECURSIVE RunOfS(_, _)
RunOfS(text, i) ==
  IF i <= Len(text) /\ text[i] = "s" THEN 1 + RunOfS(text, i + 1) ELSE 0

\* The regular expression of the split, /\\n\\s*\\n/ as the source has it: a
\* backslash, n, a backslash, any number of s, a backslash, n.  The length
\* of its match at position i, 0 when it does not match there.
MatchAt(text, i) ==
  LET k == RunOfS(text, i + 3)
  IN  IF /\ i + 4 + k <= Len(text)
         /\ text[i] = BS /\ text[i + 1] = "n" /\ text[i + 2] = BS
         /\ text[i + 3 + k] = BS /\ text[i + 4 + k] = "n"
        THEN 5 + k
        ELSE 0

\* md.split(regex): the pieces between the matches, found left to right;
\* start is where the current piece begins, i where a match is looked for.
RECURSIVE SplitFrom(_, _, _)
SplitFrom(text, start, i) ==
  IF i > Len(text) THEN <<SubSeq(text, start, Len(text))>>
  ELSE IF MatchAt(text, i) > 0
    THEN <<SubSeq(text, start, i - 1)>>
         \o SplitFrom(text, i + MatchAt(text, i), i + MatchAt(text, i))
  ELSE SplitFrom(text, start, i + 1)

\* String.prototype.trim
RECURSIVE trim(_)
trim(text) ==
  IF text = <<>> THEN text
  ELSE IF Head(text) \in Whitespace THEN trim(Tail(text))
  ELSE IF text[Len(text)] \in Whitespace THEN trim(SubSeq(text, 1, Len(text) - 1))
  ELSE text

\* .filter(Boolean) on strings: the empty ones are dropped.
RECURSIVE FilterBoolean(_)
FilterBoolean(list) ==
  IF list = <<>> THEN <<>>
  ELSE IF Head(list) = <<>> THEN FilterBoolean(Tail(list))
  ELSE <<Head(list)>> \o FilterBoolean(Tail(list))

\* const paras = md.split(...).map(p => p.trim()).filter(Boolean)
Paragraphs(text) ==
  LET split == SplitFrom(text, 1, 1)
  IN  FilterBoolean([i \in 1..Len(split) |-> trim(split[i])])

\* What is put between two paragraphs of a page, '\\n\\n' as the source has
\* it: backslash, n, backslash, n.
Separator == <<BS, "n", BS, "n">>

\* The loop over paras and the push after it: current is the page being
\* filled, out the pages closed so far.
RECURSIVE Accumulate(_, _, _, _)
Accumulate(paras, current, out, budget) ==
  IF paras = <<>> THEN (IF current # <<>> THEN Append(out, current) ELSE out)
  ELSE IF current = <<>> THEN Accumulate(Tail(paras), Head(paras), out, budget)
  ELSE IF Length(current) + Length(Head(paras)) + 2 <= budget
    THEN Accumulate(Tail(paras), current \o Separator \o Head(paras), out, budget)
  ELSE Accumulate(Tail(paras), Head(paras), Append(out, current), budget)

paginateMarkdown(text, budget) == Accumulate(Paragraphs(text), <<>>, <<>>, budget)

\* buildPagesForChapter without the page it adds when there is none.
buildPagesWithoutEmptyPage(chapter) ==
  LET paras == paginateMarkdown(chapter.body, CHARS_PER_PAGE)
  IN  [i \in 1..Len(paras) |->
         [text |-> paras[i], flipped |-> FALSE, click |-> FALSE, onEnd |-> FALSE]]

\* buildPagesForChapter: #pages is emptied, the chapter's body paginated
\* with CHARS_PER_PAGE, one empty page taken when that gives none, and one
\* element made per page: not flipped, without listeners.
buildPagesForChapter(chapter) ==
  LET paras == paginateMarkdown(chapter.body, CHARS_PER_PAGE)
      shown == IF Len(paras) = 0 THEN <<<<>>>> ELSE paras
  IN  [i \in 1..Len(shown) |->
         [text |-> shown[i], flipped |-> FALSE, click |-> FALSE, onEnd |-> FALSE]]

\* ------------------------------------------------------ reader.js: reader
\* How many chapters a book has, and how many close animations run at once,
\* at most.
MaxChapters == 2
MaxClosing == 2

\* book.chapters[idx]: Null (undefined) outside the array.
ChapterAt(book, idx) ==
  IF idx >= 0 /\ idx < Len(book.chapters) THEN book.chapters[idx + 1] ELSE Null

\* book.chapters.findIndex(c => c.id === id)
findIndex(book, id) ==
  LET found == {i \in 1..Len(book.chapters) : book.chapters[i].id = id}
  IN  IF found = {} THEN -1 ELSE (CHOOSE i \in found : \A j \in found : i <= j) - 1

\* overrideMode || chapter.mode || 'scroll'
ModeOf(override, chapter) == OrElse(override, OrElse(chapter.mode, "scroll"))

\* The page elements showChapter leaves in #pages: those built for the
\* chapter; in novel mode none of them flipped and each with a click
\* listener, in scroll mode without one.
ShownPages(chapter, override) ==
  LET built == buildPagesForChapter(chapter)
      novel == ModeOf(override, chapter) = "novel"
  IN  [i \in 1..Len(built) |->
         [built[i] EXCEPT !.flipped = IF novel THEN FALSE ELSE @, !.click = novel]]

\* showChapter(idx): nothing for an index without chapter; otherwise the
\* index becomes the current one and the chapter's pages replace the ones
\* shown.  flipping is not assigned.
showChapter(idx) ==
  IF ChapterAt(bookData, idx) = Null
    THEN UNCHANGED <<currentChapterIndex, pageEls>>
    ELSE /\ currentChapterIndex' = idx
         /\ pageEls' = ShownPages(ChapterAt(bookData, idx), overrideMode)

\* init(): the page is loaded with the URL parameters chapter and mode, the
\* book fetched, the initial chapter looked up and shown.
init(book, initialChapter, mode) ==
  LET idx == IF Truthy(initialChapter) /\ findIndex(book, initialChapter) >= 0
               THEN findIndex(book, initialChapter)
               ELSE 0
  IN  /\ bookData = Null
      /\ bookData' = book
      /\ overrideMode' = mode
      /\ currentChapterIndex' = idx
      /\ pageEls' = IF ChapterAt(book, idx) = Null THEN pageEls
                    ELSE ShownPages(ChapterAt(book, idx), mode)
      /\ UNCHANGED <<serverVars, fetchVars, editorVars, paginatorVars, flipping, closing>>

\* jumpToChapter without its range check.
jumpToChapterUnchecked(newIndex) ==
  /\ bookData # Null
  /\ Len(closing) < MaxClosing
  /\ closing' = Append(closing, newIndex)
  /\ UNCHANGED <<serverVars, fetchVars, editorVars, paginatorVars, bookData,
                 currentChapterIndex, flipping, pageEls, overrideMode>>

\* jumpToChapter(newIndex): nothing for an index out of range; otherwise a
\* close animation is started that will show the chapter when it is over.
jumpToChapter(newIndex) ==
  /\ bookData # Null
  /\ Len(closing) < MaxClosing
  /\ closing' = IF newIndex < 0 \/ newIndex >= Len(bookData.chapters)
                  THEN closing
                  ELSE Append(closing, newIndex)
  /\ UNCHANGED <<serverVars, fetchVars, editorVars, paginatorVars, bookData,
                 currentChapterIndex, flipping, pageEls, overrideMode>>

nextChapter ==
  /\ bookData # Null
  /\ IF currentChapterIndex < Len(bookData.chapters) - 1
       THEN jumpToChapter(currentChapterIndex + 1)
       ELSE UNCHANGED vars

prevChapter ==
  /\ bookData # Null
  /\ IF currentChapterIndex > 0
       THEN jumpToChapter(currentChapterIndex - 1)
       ELSE UNCHANGED vars

\* The chapter switch clearing the flag as well.
CloseDoneResetting ==
  /\ closing # <<>>
  /\ showChapter(Head(closing))
  /\ closing' = Tail(closing)
  /\ flipping' = FALSE
  /\ UNCHANGED <<serverVars, fetchVars, editorVars, paginatorVars, bookData,
                 overrideMode>>

\* The promise of the oldest close animation resolves (the animations take
\* the same time, so they end in the order they began): its chapter is
\* shown.
CloseDone ==
  /\ closing # <<>>
  /\ showChapter(Head(closing))
  /\ closing' = Tail(closing)
  /\ UNCHANGED <<serverVars, fetchVars, editorVars, paginatorVars, bookData, flipping,
                 overrideMode>>

\* flipPageForward: the flag is set, the page flipped, and a transitionend
\* listener put on the page.
flipPageForward(i) ==
  /\ flipping' = TRUE
  /\ pageEls' = [pageEls EXCEPT ![i].flipped = TRUE, ![i].onEnd = TRUE]

\* The click listener without the test of the flag.
ClickPageUnguarded(i) ==
  /\ pageEls[i].click
  /\ IF ~pageEls[i].flipped THEN flipPageForward(i)
     ELSE UNCHANGED <<flipping, pageEls>>
  /\ UNCHANGED <<serverVars, fetchVars, editorVars, paginatorVars, bookData,
                 currentChapterIndex, closing, overrideMode>>

\* The click listener of page i (novel mode only).
ClickPage(i) ==
  /\ pageEls[i].click
  /\ IF flipping THEN UNCHANGED <<flipping, pageEls>>
     ELSE IF ~pageEls[i].flipped THEN flipPageForward(i)
     ELSE UNCHANGED <<flipping, pageEls>>
  /\ UNCHANGED <<serverVars, fetchVars, editorVars, paginatorVars, bookData,
                 currentChapterIndex, closing, overrideMode>>

\* transitionend on page i: onEnd removes itself and clears the flag.
TransitionEnd(i) ==
  /\ pageEls[i].onEnd
  /\ flipping' = FALSE
  /\ pageEls' = [pageEls EXCEPT ![i].onEnd = FALSE]
  /\ UNCHANGED <<serverVars, fetchVars, editorVars, paginatorVars, bookData,
                 currentChapterIndex, closing, overrideMode>>

\* The books read: up to MaxChapters chapters, each empty or of two pages
\* (two long words with a text between them that the split matches), with
\* mode novel or without a mode.
TwoPages == <<LongWord, BS, "n", BS, BS, "n", LongWord>>
ChapterKinds == [body : {<<>>, TwoPages}, mode : {Undefined, "novel"}]
ChapterIdOf == <<"c1", "c2", "c3", "c4">>
Books ==
  UNION {{[chapters |-> [i \in 1..n |-> [id |-> ChapterIdOf[i], body |-> f[i].body,
                                          mode |-> f[i].mode]]] :
            f \in [1..n -> ChapterKinds]} : n \in 0..MaxChapters}
UrlChapters == {Undefined, "c2", "zz"}
UrlModes == {Undefined, "novel", "scroll"}

\* One reader tab: the page is loaded, and the reader clicks pages, the
\* chapter buttons and the entries of the table of contents in any order,
\* while close animations and page transitions end at any time.
NextReader ==
  \/ \E book \in Books, initialChapter \in UrlChapters, mode \in UrlModes :
       init(book, initialChapter, mode)
  \/ \E newIndex \in -1..(MaxChapters + 1) : jumpToChapter(newIndex)
  \/ nextChapter
  \/ prevChapter
  \/ CloseDone
  \/ \E i \in 1..Len(pageEls) : ClickPage(i)
  \/ \E i \in 1..Len(pageEls) : TransitionEnd(i)

SpecReader == Init /\ [][NextReader]_vars

\* The inputs of the paginator: up to MaxChunks chunks one after the other,
\* a chunk being a letter, a space, a blank line with or without a space in
\* it, or a text the split's regular expression matches.
Chunks ==
  {<<"a">>, <<" ">>, <<LF, LF>>, <<LF, " ", LF>>,
   <<BS, "n", BS, BS, "n">>, <<BS, "n", BS, "s", BS, "n">>}

RECURSIVE Texts(_)
Texts(n) ==
  IF n = 0 THEN {<<>>}
  ELSE Texts(n - 1) \cup {t \o c : t \in Texts(n - 1), c \in Chunks}

Inputs == Texts(MaxChunks)
Budgets == 1..MaxBudget

\* paginateMarkdown(md, charsPerPage) is called and returns.
Paginate ==
  /\ ~pages.called
  /\ pages' = [called |-> TRUE, value |-> paginateMarkdown(md, charsPerPage)]
  /\ UNCHANGED <<serverVars, fetchVars, editorVars, md, charsPerPage, readerVars>>

InitPaginate ==
  /\ InitServer
  /\ InitEditor
  /\ InitReader
  /\ md \in Inputs
  /\ charsPerPage \in Budgets
  /\ pages = NotCalled

\* The book whose only chapter has the body text.
BookOf(text) == [chapters |-> <<[id |-> "c1", body |-> text, mode |-> Undefined]>>]

NextPaginate ==
  \/ Paginate
  \/ init(BookOf(md), Undefined, Undefined)

SpecPaginate == InitPaginate /\ [][NextPaginate]_vars

\* ---------------------------------------------------------------- claims
\* What a step is, read off the two states it joins.

\* A handler of kind op answers in this step.
Answered(op) == resp = NoResp /\ resp' # NoResp /\ resp'.op = op

\* Publish invocation h passes verification and goes on to read the book.
Accepted(h) == pub[h] = Idle /\ pub'[h] # Idle

\* Publish invocation h writes the book back and answers.
Finished(h) == pub[h] # Idle /\ pub'[h] = Idle

\* verifySession ran on header sess in this step and returned true / false.
VerifiedStep(sess) ==
  \/ Answered("upload") /\ resp'.sess = sess /\ resp'.status # 403
  \/ Answered("publish") /\ resp'.sess = sess /\ resp'.status = 400
  \/ \E h \in Handlers : Accepted(h) /\ pub'[h].sess = sess

RefusedStep(sess) ==
  /\ Answered("upload") \/ Answered("publish")
  /\ resp'.sess = sess
  /\ resp'.status = 403

\* The three ways a header fails to name a valid session: no header, no
\* record, a record whose expires is in the past.
NoHeader(sess) == sess = ""
NoRecord(sess) == sess # "" /\ sess \notin DOMAIN SESSIONS
Expired(sess) == sess \in DOMAIN SESSIONS /\ SESSIONS[sess].value.expires < now

\* C1: a publish or upload request whose X-SESSION names no valid session is
\* answered 403 and changes neither the book store nor the cover store, and
\* the stores change only in steps of requests that passed verification.
C1_Step ==
  /\ \A sess \in Headers :
       /\ Answered("upload") \/ Answered("publish") \/ Answered("insert")
       /\ resp'.sess = sess
       /\ ~\E h \in Handlers : Finished(h)
       /\ NoHeader(sess) \/ NoRecord(sess) \/ Expired(sess)
       => /\ resp'.status = 403
          /\ UNCHANGED <<STORIES, COVERS, DB>>
  /\ \A h \in Handlers :
       Accepted(h) => ~(NoHeader(pub'[h].sess) \/ NoRecord(pub'[h].sess)
                          \/ Expired(pub'[h].sess))
  /\ STORIES' # STORIES => \E h \in Handlers : Finished(h)
  /\ COVERS' # COVERS => Answered("upload")
  /\ DB' # DB => Answered("insert")

C1_NoWriteWithoutSession == [][C1_Step]_vars

\* C2: verifySession accepts a token iff its record is in the session store
\* and now < expires; at now = expires it rejects.
StrictlyValid(sess) ==
  sess \in DOMAIN SESSIONS /\ now < SESSIONS[sess].value.expires

C2_Step ==
  \A sess \in Headers :
    /\ VerifiedStep(sess) => StrictlyValid(sess)
    /\ RefusedStep(sess) => ~StrictlyValid(sess)

C2_ValidIffBeforeExpires == [][C2_Step]_vars

\* C3: verifySession returns invalid for an absent header, an unknown token
\* and a token whose expires is in the past; the expired record is deleted
\* from the session store and in the other two cases the store is unchanged.
C3_Step ==
  \A sess \in Headers :
    VerifiedStep(sess) \/ RefusedStep(sess) =>
      /\ NoHeader(sess) \/ NoRecord(sess) =>
           RefusedStep(sess) /\ SESSIONS' = SESSIONS
      /\ Expired(sess) =>
           /\ RefusedStep(sess)
           /\ DOMAIN SESSIONS' = DOMAIN SESSIONS \ {sess}
           /\ \A k \in DOMAIN SESSIONS' : SESSIONS'[k] = SESSIONS[k]

C3_InvalidSessions == [][C3_Step]_vars

\* The expired case happened: a request was refused on the expired branch
\* and its record, which outlived its expiry in the store, is gone.
C3_Witness ==
  /\ resp.op \in {"upload", "publish"}
  /\ resp.status = 403
  /\ resp.verify = "expired"
  /\ resp.sess \in DOMAIN issued
  /\ resp.sess \notin DOMAIN SESSIONS

\* C4: createSession answers 400 to a missing or empty password and 403 to a
\* password that is not the secret, and stores nothing in either case; to the
\* secret it answers 201 with a token that was not in the store, and stores
\* exactly one new record {token, expires = now + 20 minutes} under it.
C4_Step ==
  \A payload \in SessionPayloads :
    CreateSession(payload) =>
      LET password == IF payload = Null THEN Undefined ELSE payload.password
          token == resp'.sess
      IN  /\ password \in {Undefined, ""} =>
               resp'.status = 400 /\ SESSIONS' = SESSIONS
          /\ password \notin {Undefined, "", SECRET_TOKEN} =>
               resp'.status = 403 /\ SESSIONS' = SESSIONS
          /\ password = SECRET_TOKEN =>
               /\ resp'.status = 201
               /\ token \notin DOMAIN SESSIONS
               /\ DOMAIN SESSIONS' = DOMAIN SESSIONS \cup {token}
               /\ SESSIONS'[token].value =
                    [token |-> token, expires |-> now + 20 * 60 * 1000]
               /\ \A k \in DOMAIN SESSIONS : SESSIONS'[k] = SESSIONS[k]

C4_CreateSession == [][C4_Step]_vars

\* A second session has just been created beside an earlier one.
C4_Witness ==
  /\ resp.op = "session"
  /\ resp.status = 201
  /\ resp.sess \in DOMAIN SESSIONS
  /\ SESSIONS[resp.sess].value.expires = now + 20 * 60 * 1000
  /\ Cardinality(DOMAIN SESSIONS) = 2

\* C5: no request changes the expires of a stored session record, and no
\* verification of a token succeeds later than 20 minutes after the token
\* was created, however often the token was used before.
C5_Step ==
  /\ \A tok \in DOMAIN SESSIONS \cap DOMAIN SESSIONS' :
       SESSIONS'[tok].value.expires = SESSIONS[tok].value.expires
  /\ \A tok \in DOMAIN SESSIONS' : SESSIONS'[tok].value.expires = issued'[tok]
  /\ \A sess \in Headers :
       VerifiedStep(sess) => sess \in DOMAIN issued /\ now <= issued[sess]

C5_FixedLifetime == [][C5_Step]_vars

\* A token that was used to upload a cover is refused as expired afterwards.
C5_Witness ==
  /\ resp.verify = "expired"
  /\ resp.status = 403
  /\ now > issued[resp.sess]
  /\ DOMAIN issued = {resp.sess}
  /\ COVERS # <<>>

\* The chapter ids of a stored book, in stored order (none when not stored).
ChapterIds(stories, bookId) ==
  IF bookId \in DOMAIN stories
    THEN [i \in 1..Len(stories[bookId].chapters) |-> stories[bookId].chapters[i].id]
    ELSE <<>>

\* No other publish wrote the book between h's read and h's write.
Uninterleaved(h) == KVGet(STORIES, pub[h].bookId) = pub[h].book

\* C6: a successful publish that no other publish interleaves with leaves a
\* book that had no stored record with exactly one chapter, and a stored
\* book with its previous chapters, unchanged and in order, followed by one
\* new chapter whose id is none of theirs; n such publishes to one book id
\* leave n chapters in publish order.
C6_Step ==
  \A h \in Handlers :
    Finished(h) /\ Uninterleaved(h) =>
      LET id == pub[h].bookId
          old == IF id \in DOMAIN STORIES THEN STORIES[id].chapters ELSE <<>>
          new == STORIES'[id].chapters
      IN  /\ resp'.status = 201
          /\ id \notin DOMAIN STORIES => Len(new) = 1
          /\ Len(new) = Len(old) + 1
          /\ SubSeq(new, 1, Len(old)) = old
          /\ \A i \in 1..Len(old) : old[i].id # new[Len(new)].id
          /\ ChapterIds(STORIES, id) = Returned(id) =>
               ChapterIds(STORIES', id) = published'[id]

C6_AppendInOrder == [][C6_Step]_vars

\* Two publishes to one book, one after the other, left two chapters in
\* publish order; a publish without a book id left a book of one chapter.
C6_Witness ==
  /\ resp.op = "publish" /\ resp.status = 201
  /\ \E id \in DOMAIN STORIES :
       /\ Len(STORIES[id].chapters) = 2
       /\ ChapterIds(STORIES, id) = published[id]

\* C7: a publish that writes after another publish to the same book id has
\* written since its own read answers 201 and stores the record it read plus
\* its own chapter: the chapters written in between are gone, and the book
\* holds fewer chapters than publishes to it were answered 201.
C7_Step ==
  \A h \in Handlers :
    Finished(h) /\ ~Uninterleaved(h) =>
      LET id == pub[h].bookId
          read == IF pub[h].book = Null THEN <<>> ELSE pub[h].book.chapters
          new == STORIES'[id].chapters
      IN  /\ resp'.status = 201
          /\ Len(new) = Len(read) + 1
          /\ SubSeq(new, 1, Len(read)) = read
          /\ \A i \in 1..Len(STORIES[id].chapters) :
               (\A j \in 1..Len(read) : read[j].id # STORIES[id].chapters[i].id)
               => \A k \in 1..Len(new) : new[k].id # STORIES[id].chapters[i].id
          /\ Len(new) < Len(published'[id])

C7_LostUpdate == [][C7_Step]_vars

\* Both publishes were answered 201 and the book holds one chapter, the last
\* writer's.
C7_Witness ==
  \E id \in DOMAIN STORIES :
    /\ Len(published[id]) = 2
    /\ Len(STORIES[id].chapters) = 1
    /\ STORIES[id].chapters[1].id = published[id][2]

\* C8: a publish to an existing book leaves the cover it read when the
\* payload's cover is absent or empty, overwrites the description whenever
\* bookDesc is present (also with ''), leaves it when bookDesc is absent,
\* leaves id, created_at and the existing chapters, and sets updated_at to
\* the publish time.
C8_Step ==
  \A h \in Handlers :
    Finished(h) /\ pub[h].book # Null =>
      LET old == pub[h].book
          new == STORIES'[pub[h].bookId]
          payload == pub[h].payload
      IN  /\ payload.cover \in {Undefined, ""} => new.cover = old.cover
          /\ payload.cover \notin {Undefined, ""} => new.cover = payload.cover
          /\ payload.bookDesc # Undefined => new.description = payload.bookDesc
          /\ payload.bookDesc = Undefined => new.description = old.description
          /\ new.id = old.id
          /\ new.created_at = old.created_at
          /\ SubSeq(new.chapters, 1, Len(old.chapters)) = old.chapters
          /\ new.updated_at = pub[h].at
          /\ new.updated_at = new.chapters[Len(new.chapters)].created_at

C8_MetadataMerge == [][C8_Step]_vars

\* A book published with a description and a cover, then published to later
\* with an empty description and no cover.
C8_Witness ==
  \E id \in DOMAIN STORIES :
    /\ Len(STORIES[id].chapters) = 2
    /\ STORIES[id].description = ""
    /\ STORIES[id].cover = "/r2/c"
    /\ STORIES[id].created_at # STORIES[id].updated_at
    /\ STORIES[id].chapters[1].created_at = STORIES[id].created_at

\* C9: every request ends with a response of the handler's own: none ends
\* with an uncaught exception, and every failure is a JSON error body with
\* status 400, 403 or 404.
C9_NoUncaughtException ==
  resp # NoResp =>
    /\ ~resp.thrown
    /\ resp.status \in {200, 201, 400, 403, 404}

\* A well-formed data URI: 'data:', a content type, ';base64,', valid base64.
IsBase64(text) ==
  \A i \in 1..Len(text) :
    /\ text[i] \in {"AQID", "/w=="}
    /\ text[i] = "/w==" => i = Len(text)

WellFormedDataURI(data) ==
  /\ Len(data) >= 3
  /\ data[1] = "data:"
  /\ data[2] \notin {"data:", ";base64,"}
  /\ data[3] = ";base64,"
  /\ IsBase64(SubSeq(data, 4, Len(data)))

\* C10: an upload with a valid session whose data is not a well-formed data
\* URI (no 'data:<content-type>;base64,' prefix, or a payload that is not
\* valid base64) is answered 400 and writes nothing to the blob store.
C10_Step ==
  \A sess \in Headers, payload \in UploadPayloads :
    /\ UploadCover(sess, payload)
    /\ resp'.verify = "ok"
    /\ payload # Null
    /\ "data" \in DOMAIN payload
    /\ ~WellFormedDataURI(payload.data)
    => resp'.status = 400 /\ COVERS' = COVERS

C10_RejectsMalformedData == [][C10_Step]_vars

\* ------------------------------------------------------------------ C11
\* The submit event: the handler leaves its idle position or ends at once.
Submitted == editor.pc = "idle" /\ editor' # editor

\* C11: after a publish or upload attempt was rejected (403) with the cached
\* token, the next submit asks for the password again.
C11_Step ==
  Submitted /\ editor.status = "Error: Forbidden" => editor'.prompted

C11_StaleTokenReauthenticates == [][C11_Step]_vars

\* ------------------------------------------------------------------ C12
\* Array.prototype.join
RECURSIVE Join(_, _)
Join(list, sep) ==
  IF list = <<>> THEN <<>>
  ELSE IF Len(list) = 1 THEN list[1]
  ELSE list[1] \o sep \o Join(Tail(list), sep)

\* The last position of the whitespace that starts at position i (i - 1 when
\* there is none).
RECURSIVE WhitespaceEnd(_, _)
WhitespaceEnd(text, i) ==
  IF i <= Len(text) /\ text[i] \in Whitespace THEN WhitespaceEnd(text, i + 1) ELSE i - 1

\* A blank line at position i: a line feed, whitespace, a line feed.  The
\* length of the longest one, 0 when there is none.
BlankLineAt(text, i) ==
  LET ends == {k \in (i + 1)..WhitespaceEnd(text, i + 1) : text[k] = LF}
  IN  IF text[i] = LF /\ ends # {} THEN Max(ends) - i + 1 ELSE 0

RECURSIVE SplitOnBlankLines(_, _, _)
SplitOnBlankLines(text, start, i) ==
  IF i > Len(text) THEN <<SubSeq(text, start, Len(text))>>
  ELSE IF BlankLineAt(text, i) > 0
    THEN <<SubSeq(text, start, i - 1)>>
         \o SplitOnBlankLines(text, i + BlankLineAt(text, i), i + BlankLineAt(text, i))
  ELSE SplitOnBlankLines(text, start, i + 1)

\* The input's paragraphs: split on blank lines, trimmed, empty ones removed.
BlankLineParagraphs(text) ==
  LET split == SplitOnBlankLines(text, 1, 1)
  IN  FilterBoolean([i \in 1..Len(split) |-> trim(split[i])])

\* C12: the pages paginateMarkdown returned, joined with the paragraph
\* separator, are the input's blank-line paragraphs joined with it.
C12_RejoinedParagraphs ==
  pages.called =>
    Join(pages.value, Separator) = Join(BlankLineParagraphs(md), Separator)

\* ------------------------------------------------------------------ C13
\* The page is one paragraph of the input, as paginateMarkdown split it.
SingleParagraph(page) ==
  \E i \in 1..Len(Paragraphs(md)) : Paragraphs(md)[i] = page

\* C13: every page paginateMarkdown returned is at most charsPerPage long,
\* unless it is a single paragraph that is longer than that by itself.
C13_PageWithinBudget ==
  pages.called =>
    \A i \in 1..Len(pages.value) :
      \/ Length(pages.value[i]) <= charsPerPage
      \/ SingleParagraph(pages.value[i])

\* ------------------------------------------------------------------ C14
\* The input is empty or made of whitespace only.
Blank(text) == \A i \in 1..Len(text) : text[i] \in Whitespace

\* C14 as stated: paginateMarkdown never returns zero pages, and exactly one
\* empty page for a blank input.
C14_PaginateNeverEmpty ==
  pages.called =>
    /\ Len(pages.value) >= 1
    /\ Blank(md) => pages.value = <<<<>>>>

\* C14 as the code has it: paginateMarkdown returns no page for a blank
\* input, and the chapter shown has at least one page all the same, exactly
\* one empty page when its body is blank.
C14_ChapterNeverWithoutPage ==
  /\ pages.called /\ Blank(md) => pages.value = <<>>
  /\ bookData # Null =>
       /\ Len(pageEls) >= 1
       /\ Blank(md) => Len(pageEls) = 1 /\ pageEls[1].text = <<>>

C14_Witness ==
  /\ pages.called
  /\ bookData # Null
  /\ Blank(md)
  /\ md # <<>>
  /\ Len(pageEls) = 1

\* ------------------------------------------------------------------ C15
\* The url of the path asked for.
UrlAsked == <<"https://origin">> \o got'.path

\* C15: a GET of a url that a 201 of upload-cover returned is answered 200
\* with the bytes and the type of the file uploaded, whatever the X-SESSION
\* header; a GET for a key never stored is answered 404.
C15_Step ==
  Answered("r2") =>
    /\ UrlAsked \in DOMAIN uploaded =>
         /\ got'.status = 200
         /\ got'.body = uploaded[UrlAsked].bytes
         /\ got'.contentType = uploaded[UrlAsked].type
    /\ Decodable(Tail(got'.path))
         /\ decodeURIComponent(Tail(got'.path)) \notin DOMAIN COVERS =>
         got'.status = 404

C15_CoverRoundTrip == [][C15_Step]_vars

\* A cover with bytes was fetched without a session header.
C15_Witness ==
  /\ got.status = 200
  /\ <<"https://origin">> \o got.path \in DOMAIN uploaded
  /\ got.body = <<1, 2, 3, 255>>
  /\ resp.op = "r2"
  /\ resp.sess = ""

\* ------------------------------------------------------------------ C16
\* The stored records that parse.
WellFormed == {k \in DOMAIN STORIES : STORIES[k] # Malformed}

\* The body is the listing the claim describes: one summary per well-formed
\* record and no other, each with the record's number of chapters, the
\* later updated first.
Listing(body) ==
  /\ \A i \in 1..Len(body) : {"chapterCount", "updated_at"} \subseteq DOMAIN body[i]
  /\ Len(body) = Cardinality(WellFormed)
  /\ \A k \in WellFormed : \E i \in 1..Len(body) : body[i].id = k
  /\ \A i \in 1..Len(body) :
       /\ body[i].id \in WellFormed
       /\ body[i].chapterCount = Len(STORIES[body[i].id].chapters)
  /\ \A i \in 1..(Len(body) - 1) :
       localeCompare(body[i].updated_at, body[i + 1].updated_at) >= 0

\* C16: every answer to GET /api/books is that listing.
C16_Step == Answered("list") \/ Answered("select") => Listing(got'.body)

C16_ListingSorted == [][C16_Step]_vars

\* ------------------------------------------------------------------ C17
\* The indexes of the book's chapters.
ChapterIndexes == 0..(Len(bookData.chapters) - 1)

\* C17: once a book with at least one chapter is loaded, the current index
\* is a chapter's index, and so is the target of every close animation
\* running: no request for an index out of range was taken up.
C17_IndexInRange ==
  bookData # Null /\ Len(bookData.chapters) >= 1 =>
    /\ currentChapterIndex \in ChapterIndexes
    /\ \A i \in 1..Len(closing) : closing[i] \in ChapterIndexes

\* Two requests for the last chapter are under way at once.
C17_Witness ==
  /\ bookData # Null
  /\ Len(bookData.chapters) = 2
  /\ currentChapterIndex = 0
  /\ Len(closing) = 2
  /\ closing[1] = 1
  /\ closing[2] = 1

\* ------------------------------------------------------------------ C18
\* The pages whose flip animation is in progress.
InFlight(els) == {i \in 1..Len(els) : els[i].onEnd}

\* C18: after every step at most one flip is in progress, and the flag is
\* set while it is; as long as the same flip is in progress no page changes
\* its flipped state.
C18_Step ==
  /\ Cardinality(InFlight(pageEls')) <= 1
  /\ InFlight(pageEls') # {} => flipping'
  /\ InFlight(pageEls) # {} /\ InFlight(pageEls') = InFlight(pageEls)
       /\ Len(pageEls') = Len(pageEls) =>
       \A i \in 1..Len(pageEls) : pageEls'[i].flipped = pageEls[i].flipped

C18_OneFlipAtATime == [][C18_Step]_vars

\* The second page is being flipped after the first one's flip ended.
C18_Witness ==
  /\ Len(pageEls) = 2
  /\ pageEls[1].flipped /\ ~pageEls[1].onEnd
  /\ pageEls[2].flipped /\ pageEls[2].onEnd
  /\ flipping

\* ------------------------------------------------------------------ C19
\* A chapter is shown: by init, or when a close animation is over.
Shown ==
  /\ \/ bookData = Null /\ bookData' # Null
     \/ Len(closing') < Len(closing)
  /\ pageEls' # <<>>

\* C19: right after a chapter is shown no page is flipped and the flag is
\* false.
C19_Step ==
  Shown => ~flipping' /\ \A i \in 1..Len(pageEls') : ~pageEls'[i].flipped

C19_NavigationResetsFlip == [][C19_Step]_vars

\* ------------------------------------------------------------------ C20
\* C20: while the flag is set no flip starts, and the flag is cleared only
\* by the step that takes the transitionend listener off the page being
\* flipped.
C20_Step ==
  flipping =>
    /\ \A i \in InFlight(pageEls') : i \in InFlight(pageEls)
    /\ ~flipping' =>
         /\ Len(pageEls') = Len(pageEls)
         /\ \E i \in InFlight(pageEls) : ~pageEls'[i].onEnd

C20_OnlyTransitionEndClears == [][C20_Step]_vars

\* The flag is set, novel pages are shown, and no transitionend is awaited.
C20_Witness ==
  /\ flipping
  /\ pageEls # <<>>
  /\ InFlight(pageEls) = {}
  /\ \A i \in 1..Len(pageEls) : pageEls[i].click /\ ~pageEls[i].flipped

\* ------------------------------------------------------------------ C21
\* C21: the flipped pages are a prefix of the pages shown: a page is flipped
\* only if every page before it is.
C21_FlippedPrefix ==
  \A i \in 1..Len(pageEls) :
    pageEls[i].flipped => \A j \in 1..(i - 1) : pageEls[j].flipped

====
